---- MODULE Spec2Model ----
(***************************************************************************)
(* OptimizedWordFrequencyAnalyzer (src/optimized_linked_list_analyzer.py). *)
(*                                                                         *)
(* Strings are sequences of code points, so that str.split, str.strip,     *)
(* str.lower and the comparison of two words are computed, not assumed.    *)
(* The two linked lists are heaps of nodes: a function from node ids to    *)
(* records with next/prev fields; None is the id 0.  A node that nothing   *)
(* references any more is dropped from the heap, as the Python runtime     *)
(* frees it.  Every method is an operator from the analyzer object (a      *)
(* record of its fields) to the analyzer object after the call.            *)
(***************************************************************************)
EXTENDS Integers, Sequences, FiniteSets, TLC

\* the reference to no node
None == 0

\* the length of the top list: the 5 of [:5] and len(...) < 5, and 4 + 1
TopN == 5

\* add_words is taken while total_words stays within MaxTotal
MaxTotal == 7

\* the largest number of comma-separated pieces of an input
MaxBatch == 2

\* the most words the analyzer holds in the runs of the scripts
ScriptMaxTotal == 13

\* the most calls of add_words in a run of the scripts between two clears
MaxCalls == 3

\* the largest decrement tried for a frequency without a node
MaxDelta == 2

---------------------------------------------------------------------------
(* Strings *)

\* the code point of ','
Comma == 44

IsSpace(c) == c \in {9, 10, 11, 12, 13, 28, 29, 30, 31, 32}

SetMin(S) == CHOOSE x \in S : \A y \in S : x <= y

SetMax(S) == CHOOSE x \in S : \A y \in S : x >= y

\* str.strip(): the string without its leading and trailing whitespace
strip(s) ==
  LET keep == {i \in 1..Len(s) : ~IsSpace(s[i])}
  IN IF keep = {} THEN <<>> ELSE SubSeq(s, SetMin(keep), SetMax(keep))

\* str.lower() on ASCII
\* lower() left out of the comprehension of add_words
LowerIdentity(s) == s

lower(s) == [i \in 1..Len(s) |-> IF s[i] \in 65..90 THEN s[i] + 32 ELSE s[i]]

\* str.split(','): the pieces between the commas; "" gives [""]
RECURSIVE SplitFrom(_, _, _, _)
SplitFrom(s, i, cur, acc) ==
  IF i > Len(s) THEN Append(acc, cur)
  ELSE IF s[i] = Comma THEN SplitFrom(s, i + 1, <<>>, Append(acc, cur))
  ELSE SplitFrom(s, i + 1, Append(cur, s[i]), acc)

split(s) == SplitFrom(s, 1, <<>>, <<>>)

\* the list comprehension without its filter
KeepPieceAll(piece) == TRUE

\* the filter of the list comprehension: `if word.strip()`
KeepPiece(piece) == strip(piece) # <<>>

RECURSIVE TokensOf(_, _)
TokensOf(pieces, i) ==
  IF i > Len(pieces) THEN <<>>
  ELSE IF KeepPiece(pieces[i])
       THEN <<lower(strip(pieces[i]))>> \o TokensOf(pieces, i + 1)
       ELSE TokensOf(pieces, i + 1)

\* words = [word.strip().lower() for word in words_string.split(',') if word.strip()]
Tokenize(s) == TokensOf(split(s), 1)

---------------------------------------------------------------------------
(* The inputs *)

\* the pieces an input is made of: "a", " ab", "B", "c ", "d", "e", " "
RawPieces ==
  { <<97>>, <<32, 97, 98>>, <<66>>, <<99, 32>>, <<100>>, <<101>>, <<32>> }

RECURSIVE Join(_)
Join(pieces) ==
  IF Len(pieces) = 1 THEN pieces[1]
  ELSE pieces[1] \o <<Comma>> \o Join(Tail(pieces))

\* the inputs: "", and up to MaxBatch pieces with commas between them
RawInputs ==
  {<<>>} \cup UNION { {Join(ps) : ps \in [1..n -> RawPieces]} : n \in 1..MaxBatch }

\* The batches the scripts of the repository give, as code points.
\* test_demo.py, memory_comparison: "apple, banana, apple, cherry"
DemoBatch1 ==
  << 97, 112, 112, 108, 101, 44, 32, 98, 97, 110, 97, 110, 97, 44, 32, 97,
     112, 112, 108, 101, 44, 32, 99, 104, 101, 114, 114, 121 >>

\* test_demo.py, memory_comparison: "banana, cherry, elderberry, fig"
DemoBatch2 ==
  << 98, 97, 110, 97, 110, 97, 44, 32, 99, 104, 101, 114, 114, 121, 44, 32,
     101, 108, 100, 101, 114, 98, 101, 114, 114, 121, 44, 32, 102, 105,
     103 >>

\* test_demo.py, memory_comparison: "apple, grape, apple, banana"
DemoBatch3 ==
  << 97, 112, 112, 108, 101, 44, 32, 103, 114, 97, 112, 101, 44, 32, 97,
     112, 112, 108, 101, 44, 32, 98, 97, 110, 97, 110, 97 >>

\* test_demo.py, memory_comparison: "date, elderberry, fig, grape, honey"
DemoBatch4 ==
  << 100, 97, 116, 101, 44, 32, 101, 108, 100, 101, 114, 98, 101, 114, 114,
     121, 44, 32, 102, 105, 103, 44, 32, 103, 114, 97, 112, 101, 44, 32,
     104, 111, 110, 101, 121 >>

\* test_incremental_benefits: "apple, banana, apple, cherry, date"
InitialWords ==
  << 97, 112, 112, 108, 101, 44, 32, 98, 97, 110, 97, 110, 97, 44, 32, 97,
     112, 112, 108, 101, 44, 32, 99, 104, 101, 114, 114, 121, 44, 32, 100,
     97, 116, 101 >>

\* test_incremental_benefits: "zebra, yankee, xray, whale, violin"
Newcomers ==
  << 122, 101, 98, 114, 97, 44, 32, 121, 97, 110, 107, 101, 101, 44, 32,
     120, 114, 97, 121, 44, 32, 119, 104, 97, 108, 101, 44, 32, 118, 105,
     111, 108, 105, 110 >>

\* test_incremental_benefits: "apple, apple, banana, cherry, cherry"
Risers ==
  << 97, 112, 112, 108, 101, 44, 32, 97, 112, 112, 108, 101, 44, 32, 98,
     97, 110, 97, 110, 97, 44, 32, 99, 104, 101, 114, 114, 121, 44, 32, 99,
     104, 101, 114, 114, 121 >>

\* a line typed at the prompt of interactive_demo: "Fig, FIG ,fig"
TypedMixed ==
  << 70, 105, 103, 44, 32, 70, 73, 71, 32, 44, 102, 105, 103 >>

\* a line typed at the prompt of interactive_demo: "kiwi,, ,KIWI"
TypedGaps ==
  << 107, 105, 119, 105, 44, 44, 32, 44, 75, 73, 87, 73 >>

\* a line typed at the prompt of interactive_demo: ","
TypedBlank ==
  << 44 >>

ScriptInputs ==
  { DemoBatch1, DemoBatch2, DemoBatch3, DemoBatch4,
    InitialWords, Newcomers, Risers, TypedMixed, TypedGaps, TypedBlank }

\* Tokenize, computed once for each input
TokenTable == [s \in RawInputs \cup ScriptInputs |-> Tokenize(s)]

Tokens(s) == IF s \in DOMAIN TokenTable THEN TokenTable[s] ELSE Tokenize(s)


\* a < b on str: lexicographic by code point, a proper prefix first
RECURSIVE StrLess(_, _)
StrLess(a, b) ==
  IF b = <<>> THEN FALSE
  ELSE IF a = <<>> THEN TRUE
  ELSE IF a[1] # b[1] THEN a[1] < b[1]
  ELSE StrLess(Tail(a), Tail(b))

---------------------------------------------------------------------------
(* Lists of (word, frequency) tuples *)

\* key=lambda x: (-x[1], x[0]) : tuple comparison of the two keys
KeyLess(x, y) == x[2] > y[2] \/ (x[2] = y[2] /\ StrLess(x[1], y[1]))

\* list.sort is stable: an item goes after the items whose key is not greater
RECURSIVE InsertSorted(_, _)
InsertSorted(sorted, e) ==
  IF sorted = <<>> THEN <<e>>
  ELSE IF KeyLess(e, sorted[1]) THEN <<e>> \o sorted
  ELSE <<sorted[1]>> \o InsertSorted(Tail(sorted), e)

RECURSIVE SortByKey(_)
SortByKey(l) ==
  IF l = <<>> THEN <<>>
  ELSE InsertSorted(SortByKey(SubSeq(l, 1, Len(l) - 1)), l[Len(l)])

\* list.sort() of integers, ascending
RECURSIVE SortInts(_)
SortInts(l) ==
  IF l = <<>> THEN <<>>
  ELSE LET rest == SortInts(SubSeq(l, 1, Len(l) - 1))
           e == l[Len(l)]
           after == {i \in 1..Len(rest) : e < rest[i]}
           pos == IF after = {} THEN Len(rest) + 1 ELSE SetMin(after)
       IN SubSeq(rest, 1, pos - 1) \o <<e>> \o SubSeq(rest, pos, Len(rest))

\* l[:n]
Take(l, n) == SubSeq(l, 1, IF Len(l) < n THEN Len(l) ELSE n)

RECURSIVE SetToSeq(_)
SetToSeq(S) ==
  IF S = {} THEN <<>>
  ELSE LET x == CHOOSE y \in S : TRUE IN <<x>> \o SetToSeq(S \ {x})

RECURSIVE Without(_, _)
Without(l, word) ==
  IF l = <<>> THEN <<>>
  ELSE IF l[1][1] # word THEN <<l[1]>> \o Without(Tail(l), word)
  ELSE Without(Tail(l), word)

---------------------------------------------------------------------------
(* The object store *)

EmptyHeap == [n \in {} |-> n]

\* a fresh object: an id no live node has
NewId(heap) == SetMin((1..(Cardinality(DOMAIN heap) + 1)) \ DOMAIN heap)

\* a walk along next visits every node once when the list has no cycle; the
\* walks stop after that many steps
Fuel(heap) == Cardinality(DOMAIN heap) + 1

RECURSIVE Reach(_, _, _)
Reach(heap, seen, frontier) ==
  IF frontier = {} THEN seen
  ELSE LET now == seen \cup frontier
           nxt == {heap[n].next : n \in frontier} \cup {heap[n].prev : n \in frontier}
       IN Reach(heap, now, (nxt \cap DOMAIN heap) \ now)

\* the nodes still referenced, from head and tail through next and prev
Collect(heap, head, tail) ==
  LET live == Reach(heap, {}, {head, tail} \cap DOMAIN heap)
  IN [n \in live |-> heap[n]]

\* the ids met from current through next, each once
RECURSIVE WalkIds(_, _, _)
WalkIds(heap, current, seen) ==
  IF current = None \/ current \in seen \/ current \notin DOMAIN heap THEN <<>>
  ELSE <<current>> \o WalkIds(heap, heap[current].next, seen \cup {current})

RECURSIVE Ascending(_)
Ascending(S) ==
  IF S = {} THEN <<>> ELSE <<SetMin(S)>> \o Ascending(S \ {SetMin(S)})

\* The program never looks at the address of a node, only at what it holds and
\* at whether a reference is None.  States that differ in the addresses alone
\* are the same state: the live nodes are renamed 1, 2, ... in list order
\* (the nodes the head does not reach, if any, after them).
Renamed(heap, head) ==
  LET walk == WalkIds(heap, head, {})
      all == IF Len(walk) = Cardinality(DOMAIN heap) THEN walk
             ELSE walk \o Ascending(DOMAIN heap \ {walk[i] : i \in 1..Len(walk)})
      to == [old \in DOMAIN heap \cup {None} |->
               IF old = None THEN None
               ELSE CHOOSE i \in 1..Len(all) : all[i] = old]
  IN [to |-> to,
      heap |-> [i \in 1..Len(all) |->
                  [heap[all[i]] EXCEPT !.next = to[@], !.prev = to[@]]]]

\* Counter.__getitem__: a missing key reads as 0 and is not added
CounterGet(wc, word) == IF word \in DOMAIN wc THEN wc[word] ELSE 0

\* dict with insertion order: keys in the order they were first set
EmptyDict == [keys |-> <<>>, val |-> EmptyHeap]

DictGet(d, k, default) == IF k \in DOMAIN d.val THEN d.val[k] ELSE default

DictSet(d, k, v) ==
  IF k \in DOMAIN d.val THEN [d EXCEPT !.val[k] = v]
  ELSE [keys |-> Append(d.keys, k), val |-> (k :> v) @@ d.val]

---------------------------------------------------------------------------
(* Frequency count list *)

RECURSIVE FindFrom(_, _, _, _)
FindFrom(heap, current, frequency, fuel) ==
  IF current = None \/ fuel = 0 THEN None
  ELSE IF heap[current].frequency = frequency THEN current
  ELSE FindFrom(heap, heap[current].next, frequency, fuel - 1)

_find_frequency_node(st, frequency) ==
  FindFrom(st.freq_nodes, st.freq_head, frequency, Fuel(st.freq_nodes))

\* while current and current.frequency > frequency: current = current.next
RECURSIVE ScanFrom(_, _, _, _)
ScanFrom(heap, current, frequency, fuel) ==
  IF current = None \/ fuel = 0 THEN None
  ELSE IF heap[current].frequency > frequency
       THEN ScanFrom(heap, heap[current].next, frequency, fuel - 1)
       ELSE current

\* the else branch of _insert_frequency_node, always taking `if not current`
InsertAtTailOnly(st, id, heap, frequency) ==
  IF st.freq_tail = None THEN [st EXCEPT !.raised = TRUE]
  ELSE [st EXCEPT !.freq_nodes = [heap EXCEPT ![st.freq_tail].next = id,
                                              ![id].prev = st.freq_tail],
                  !.freq_tail = id]

InsertInOrder(st, id, heap, frequency) ==
  LET current == ScanFrom(heap, st.freq_head, frequency, Fuel(heap))
  IN IF current = None
     THEN \* self.freq_tail.next on None raises AttributeError
          IF st.freq_tail = None THEN [st EXCEPT !.raised = TRUE]
          ELSE [st EXCEPT !.freq_nodes = [heap EXCEPT ![st.freq_tail].next = id,
                                                      ![id].prev = st.freq_tail],
                          !.freq_tail = id]
     ELSE LET p == heap[current].prev
              h1 == [heap EXCEPT ![id].next = current, ![id].prev = p]
              h2 == IF p # None THEN [h1 EXCEPT ![p].next = id] ELSE h1
          IN [st EXCEPT !.freq_nodes = [h2 EXCEPT ![current].prev = id],
                        !.freq_head = IF p # None THEN st.freq_head ELSE id]

_insert_frequency_node(st, frequency, count) ==
  LET id == NewId(st.freq_nodes)
      new_node == [frequency |-> frequency, count |-> count,
                   next |-> None, prev |-> None]
      heap == (id :> new_node) @@ st.freq_nodes
  IN IF st.freq_head = None
     THEN [st EXCEPT !.freq_nodes = heap, !.freq_head = id, !.freq_tail = id]
     ELSE InsertInOrder(st, id, heap, frequency)

\* _remove_frequency_node without its last two lines (freq_tail kept)
RemoveKeepTail(st, node) ==
  LET heap == st.freq_nodes
      n == heap[node]
      h1 == IF n.prev # None THEN [heap EXCEPT ![n.prev].next = n.next] ELSE heap
      head == IF n.prev # None THEN st.freq_head ELSE n.next
      h2 == IF n.next # None THEN [h1 EXCEPT ![n.next].prev = n.prev] ELSE h1
  IN [st EXCEPT !.freq_nodes = Collect(h2, head, st.freq_tail),
                !.freq_head = head]

\* _remove_frequency_node without node.next.prev = node.prev
RemoveKeepBackLink(st, node) ==
  LET heap == st.freq_nodes
      n == heap[node]
      h1 == IF n.prev # None THEN [heap EXCEPT ![n.prev].next = n.next] ELSE heap
      head == IF n.prev # None THEN st.freq_head ELSE n.next
      tail == IF n.next # None THEN st.freq_tail ELSE n.prev
  IN [st EXCEPT !.freq_nodes = Collect(h1, head, tail),
                !.freq_head = head, !.freq_tail = tail]

_remove_frequency_node(st, node) ==
  LET heap == st.freq_nodes
      n == heap[node]
      h1 == IF n.prev # None THEN [heap EXCEPT ![n.prev].next = n.next] ELSE heap
      head == IF n.prev # None THEN st.freq_head ELSE n.next
      h2 == IF n.next # None THEN [h1 EXCEPT ![n.next].prev = n.prev] ELSE h1
      tail == IF n.next # None THEN st.freq_tail ELSE n.prev
  IN [st EXCEPT !.freq_nodes = Collect(h2, head, tail),
                !.freq_head = head, !.freq_tail = tail]

\* one round of the loop of _update_frequency_counts, without the removal
ApplyChangeNoRemove(st, frequency, change) ==
  IF change = 0 THEN st
  ELSE LET node == _find_frequency_node(st, frequency)
       IN IF node # None
          THEN [st EXCEPT !.freq_nodes[node].count = @ + change]
          ELSE IF change > 0 THEN _insert_frequency_node(st, frequency, change)
               ELSE st

\* one round of the loop of _update_frequency_counts without `if change > 0`
ApplyChangeInsertAlways(st, frequency, change) ==
  IF change = 0 THEN st
  ELSE LET node == _find_frequency_node(st, frequency)
       IN IF node # None
          THEN LET st1 == [st EXCEPT !.freq_nodes[node].count = @ + change]
               IN IF st1.freq_nodes[node].count <= 0
                  THEN _remove_frequency_node(st1, node)
                  ELSE st1
          ELSE _insert_frequency_node(st, frequency, change)

\* one round of the loop of _update_frequency_counts
ApplyChange(st, frequency, change) ==
  IF change = 0 THEN st
  ELSE LET node == _find_frequency_node(st, frequency)
       IN IF node # None
          THEN LET st1 == [st EXCEPT !.freq_nodes[node].count = @ + change]
               IN IF st1.freq_nodes[node].count <= 0
                  THEN _remove_frequency_node(st1, node)
                  ELSE st1
          ELSE IF change > 0 THEN _insert_frequency_node(st, frequency, change)
               ELSE st

RECURSIVE UpdateLoop(_, _, _)
UpdateLoop(st, changes, i) ==
  IF i > Len(changes.keys) \/ st.raised THEN st
  ELSE UpdateLoop(ApplyChange(st, changes.keys[i], changes.val[changes.keys[i]]),
                  changes, i + 1)

_update_frequency_counts(st, changes) == UpdateLoop(st, changes, 1)

---------------------------------------------------------------------------
(* Top 5 list *)

RECURSIVE WalkTop(_, _, _)
WalkTop(heap, current, fuel) ==
  IF current = None \/ fuel = 0 THEN <<>>
  ELSE <<<<heap[current].word, heap[current].frequency>>>>
       \o WalkTop(heap, heap[current].next, fuel - 1)

_get_current_top5_list(st) ==
  WalkTop(st.top_nodes, st.top_five_head, Fuel(st.top_nodes))

\* the loop of _rebuild_top5_linked_list linking each new node before the head
RECURSIVE RebuildLoopPrepend(_, _, _)
RebuildLoopPrepend(st, top5_list, i) ==
  IF i > Len(top5_list) THEN st
  ELSE LET id == NewId(st.top_nodes)
           new_node == [word |-> top5_list[i][1], frequency |-> top5_list[i][2],
                        next |-> None, prev |-> None]
           heap == (id :> new_node) @@ st.top_nodes
           st1 == IF st.top_five_head = None
                  THEN [st EXCEPT !.top_nodes = heap,
                                  !.top_five_head = id, !.top_five_tail = id]
                  ELSE [st EXCEPT !.top_nodes =
                                     [heap EXCEPT ![st.top_five_head].prev = id,
                                                  ![id].next = st.top_five_head],
                                  !.top_five_head = id]
       IN RebuildLoopPrepend(st1, top5_list, i + 1)

RECURSIVE RebuildLoop(_, _, _)
RebuildLoop(st, top5_list, i) ==
  IF i > Len(top5_list) THEN st
  ELSE LET id == NewId(st.top_nodes)
           new_node == [word |-> top5_list[i][1], frequency |-> top5_list[i][2],
                        next |-> None, prev |-> None]
           heap == (id :> new_node) @@ st.top_nodes
           st1 == IF st.top_five_head = None
                  THEN [st EXCEPT !.top_nodes = heap,
                                  !.top_five_head = id, !.top_five_tail = id]
                  ELSE [st EXCEPT !.top_nodes =
                                     [heap EXCEPT ![st.top_five_tail].next = id,
                                                  ![id].prev = st.top_five_tail],
                                  !.top_five_tail = id]
       IN RebuildLoop(st1, top5_list, i + 1)

\* _rebuild_top5_linked_list returning after it has cleared the list
RebuildNothing(st, top5_list) ==
  [st EXCEPT !.top_five_head = None, !.top_five_tail = None,
             !.top_nodes = Collect(st.top_nodes, None, None)]

_rebuild_top5_linked_list(st, top5_list) ==
  RebuildLoop([st EXCEPT !.top_five_head = None, !.top_five_tail = None,
                         !.top_nodes = Collect(st.top_nodes, None, None)],
              top5_list, 1)

\* list(self.word_counts.items()): the sort key orders items of distinct words
\* totally, so the order of the items does not reach the result
Items(wc) == SetToSeq({<<w, wc[w]>> : w \in DOMAIN wc})

_build_initial_top5(st) ==
  _rebuild_top5_linked_list(st, Take(SortByKey(Items(st.word_counts)), TopN))

\* _should_be_in_top5 without the alphabetical tie-breaker
ShouldBeNoTieBreak(word, freq, current_top5) ==
  \/ Len(current_top5) < TopN
  \/ freq > current_top5[TopN][2]

_should_be_in_top5(word, freq, current_top5) ==
  \/ Len(current_top5) < TopN
  \/ freq > current_top5[TopN][2]
  \/ freq = current_top5[TopN][2] /\ StrLess(word, current_top5[TopN][1])

\* _insert_or_update_in_top5 without the removal of the existing entry
InsertKeepExisting(word, freq, current_top5) ==
  Take(SortByKey(Append(current_top5, <<word, freq>>)), TopN)

\* _insert_or_update_in_top5 with the filter inverted (w == word kept)
InsertKeepOnlyWord(word, freq, current_top5) ==
  Take(SortByKey(Append(SelectSeq(current_top5, LAMBDA e : e[1] = word),
                        <<word, freq>>)), TopN)

\* the list current_top5 after the call (it is changed in place)
_insert_or_update_in_top5(word, freq, current_top5) ==
  Take(SortByKey(Append(Without(current_top5, word), <<word, freq>>)), TopN)

\* the for loop over changed_words left after its first round
ChangedLoopFirstOnly(st, order, i, current_top5) ==
  IF i > Len(order) THEN current_top5
  ELSE LET word == order[i]
           freq == CounterGet(st.word_counts, word)
       IN IF _should_be_in_top5(word, freq, current_top5)
          THEN _insert_or_update_in_top5(word, freq, current_top5)
          ELSE current_top5

\* the for loop over changed_words, in the order the set is iterated
RECURSIVE ChangedLoop(_, _, _, _)
ChangedLoop(st, order, i, current_top5) ==
  IF i > Len(order) THEN current_top5
  ELSE LET word == order[i]
           freq == CounterGet(st.word_counts, word)
       IN ChangedLoop(st, order, i + 1,
                      IF _should_be_in_top5(word, freq, current_top5)
                      THEN _insert_or_update_in_top5(word, freq, current_top5)
                      ELSE current_top5)

_update_top_five_incremental(st, order) ==
  LET current_top5 == _get_current_top5_list(st)
  IN IF current_top5 = <<>> THEN _build_initial_top5(st)
     ELSE _rebuild_top5_linked_list(st, ChangedLoop(st, order, 1, current_top5))

---------------------------------------------------------------------------
(* add_words *)

\* the first loop of add_words storing the old count back
CountWordNoIncrement(acc, word) ==
  LET old_count == CounterGet(acc.word_counts, word)
      new_count == IF old_count = 0 THEN 1 ELSE old_count
      c1 == IF old_count > 0
            THEN DictSet(acc.changes, old_count,
                         DictGet(acc.changes, old_count, 0) - 1)
            ELSE acc.changes
  IN [word_counts |-> (word :> new_count) @@ acc.word_counts,
      changes |-> DictSet(c1, new_count, DictGet(c1, new_count, 0) + 1),
      changed_words |-> IF old_count # new_count
                        THEN acc.changed_words \cup {word}
                        ELSE acc.changed_words,
      total_words |-> acc.total_words + 1]

\* the first loop of add_words without the test old_count > 0
CountWordNoGuard(acc, word) ==
  LET old_count == CounterGet(acc.word_counts, word)
      new_count == old_count + 1
      c1 == DictSet(acc.changes, old_count,
                    DictGet(acc.changes, old_count, 0) - 1)
  IN [word_counts |-> (word :> new_count) @@ acc.word_counts,
      changes |-> DictSet(c1, new_count, DictGet(c1, new_count, 0) + 1),
      changed_words |-> IF old_count # new_count
                        THEN acc.changed_words \cup {word}
                        ELSE acc.changed_words,
      total_words |-> acc.total_words + 1]

\* one round of the first loop of add_words
CountWord(acc, word) ==
  LET old_count == CounterGet(acc.word_counts, word)
      new_count == old_count + 1
      c1 == IF old_count > 0
            THEN DictSet(acc.changes, old_count,
                         DictGet(acc.changes, old_count, 0) - 1)
            ELSE acc.changes
  IN [word_counts |-> (word :> new_count) @@ acc.word_counts,
      changes |-> DictSet(c1, new_count, DictGet(c1, new_count, 0) + 1),
      changed_words |-> IF old_count # new_count
                        THEN acc.changed_words \cup {word}
                        ELSE acc.changed_words,
      total_words |-> acc.total_words + 1]

RECURSIVE CountLoop(_, _, _)
CountLoop(acc, words, i) ==
  IF i > Len(words) THEN acc
  ELSE CountLoop(CountWord(acc, words[i]), words, i + 1)

Counted(st, words) ==
  CountLoop([word_counts |-> st.word_counts, changes |-> EmptyDict,
             changed_words |-> {}, total_words |-> st.total_words], words, 1)

\* the set changed_words of the call add_words(words_string)
ChangedWords(st, words_string) == Counted(st, Tokens(words_string)).changed_words

\* the orders a set can be iterated in
Orders(S) ==
  {o \in [1..Cardinality(S) -> S] : \A i, j \in 1..Cardinality(S) : o[i] = o[j] => i = j}

\* add_words(words_string); order is the iteration order of changed_words
add_words(st, words_string, order) ==
  LET words == Tokens(words_string)
  IN IF words = <<>> THEN st
     ELSE LET acc == Counted(st, words)
              st1 == [st EXCEPT !.word_counts = acc.word_counts,
                                !.total_words = acc.total_words]
              st2 == _update_frequency_counts(st1, acc.changes)
          IN IF st2.raised THEN st2
             ELSE IF acc.changed_words # {}
                  THEN _update_top_five_incremental(st2, order)
                  ELSE st2

\* the branch that the call add_words(words_string) takes to update the top
\* list: "none" (no token, or no changed word), "_build_initial_top5" (the
\* list is empty) or "incremental"
TopFivePath(st, words_string) ==
  LET words == Tokens(words_string)
  IN IF words = <<>> THEN "none"
     ELSE LET acc == Counted(st, words)
              st1 == [st EXCEPT !.word_counts = acc.word_counts,
                                !.total_words = acc.total_words]
              st2 == _update_frequency_counts(st1, acc.changes)
          IN IF st2.raised \/ acc.changed_words = {} THEN "none"
             ELSE IF _get_current_top5_list(st2) = <<>> THEN "_build_initial_top5"
             ELSE "incremental"

---------------------------------------------------------------------------
(* Queries: the object after the call, and the value returned *)

get_top_five_most_frequent(st) ==
  [self |-> st, ret |-> WalkTop(st.top_nodes, st.top_five_head, Fuel(st.top_nodes))]

\* get_lowest_frequency reading the head of the frequency count list
LowestFromHead(st) ==
  [self |-> st,
   ret |-> IF st.freq_head = None THEN 0 ELSE st.freq_nodes[st.freq_head].frequency]

get_lowest_frequency(st) ==
  [self |-> st,
   ret |-> IF st.freq_tail = None THEN 0 ELSE st.freq_nodes[st.freq_tail].frequency]

\* list(self.word_counts.values()): one value per key
Values(wc) ==
  LET keys == SetToSeq(DOMAIN wc) IN [i \in 1..Len(keys) |-> wc[keys[i]]]

\* the median computed from the list of values, times 2 (the float is a half
\* of an integer); frequency_values[n//2 - 1] on an empty list raises IndexError
MedianOf(st, values) ==
  LET frequency_values == SortInts(values)
      n == Len(frequency_values)
  IN IF n = 0 THEN [self |-> [st EXCEPT !.raised = TRUE], ret |-> 0]
     ELSE IF n % 2 = 0
     THEN [self |-> st,
           ret |-> frequency_values[n \div 2] + frequency_values[(n \div 2) + 1]]
     ELSE [self |-> st, ret |-> 2 * frequency_values[(n \div 2) + 1]]

\* get_median_frequency over the distinct frequency values
MedianOfDistinct(st) ==
  IF DOMAIN st.word_counts = {} THEN [self |-> st, ret |-> 0]
  ELSE MedianOf(st, SetToSeq({st.word_counts[w] : w \in DOMAIN st.word_counts}))

\* get_median_frequency without `if not self.word_counts: return 0.0`
MedianNoGuard(st) == MedianOf(st, Values(st.word_counts))

get_median_frequency(st) ==
  IF DOMAIN st.word_counts = {} THEN [self |-> st, ret |-> 0]
  ELSE MedianOf(st, Values(st.word_counts))

get_all_frequencies(st) == [self |-> st, ret |-> st.word_counts]

RECURSIVE WalkFreq(_, _, _)
WalkFreq(heap, current, fuel) ==
  IF current = None \/ fuel = 0 THEN <<>>
  ELSE <<<<heap[current].frequency, heap[current].count>>>>
       \o WalkFreq(heap, heap[current].next, fuel - 1)

get_frequency_counts(st) ==
  [self |-> st, ret |-> WalkFreq(st.freq_nodes, st.freq_head, Fuel(st.freq_nodes))]

\* clear without the reset of the frequency count list
ClearKeepFreq(st) ==
  [st EXCEPT !.word_counts = EmptyHeap,
             !.top_five_head = None, !.top_five_tail = None,
             !.top_nodes = Collect(st.top_nodes, None, None),
             !.total_words = 0]

\* clear without self.word_counts.clear()
ClearKeepWords(st) ==
  [st EXCEPT !.top_five_head = None, !.top_five_tail = None,
             !.top_nodes = Collect(st.top_nodes, None, None),
             !.freq_head = None, !.freq_tail = None,
             !.freq_nodes = Collect(st.freq_nodes, None, None),
             !.total_words = 0]

\* clear without the reset of the top list
ClearKeepTop(st) ==
  [st EXCEPT !.word_counts = EmptyHeap,
             !.freq_head = None, !.freq_tail = None,
             !.freq_nodes = Collect(st.freq_nodes, None, None),
             !.total_words = 0]

\* clear without self.total_words = 0
ClearKeepTotal(st) ==
  [st EXCEPT !.word_counts = EmptyHeap,
             !.top_five_head = None, !.top_five_tail = None,
             !.top_nodes = Collect(st.top_nodes, None, None),
             !.freq_head = None, !.freq_tail = None,
             !.freq_nodes = Collect(st.freq_nodes, None, None)]

clear(st) ==
  [st EXCEPT !.word_counts = EmptyHeap,
             !.top_five_head = None, !.top_five_tail = None,
             !.top_nodes = Collect(st.top_nodes, None, None),
             !.freq_head = None, !.freq_tail = None,
             !.freq_nodes = Collect(st.freq_nodes, None, None),
             !.total_words = 0]

\* the object with the nodes of both lists renamed in list order
Canonical(st) ==
  LET f == Renamed(st.freq_nodes, st.freq_head)
      t == Renamed(st.top_nodes, st.top_five_head)
  IN [st EXCEPT !.freq_nodes = f.heap,
                !.freq_head = f.to[st.freq_head], !.freq_tail = f.to[st.freq_tail],
                !.top_nodes = t.heap,
                !.top_five_head = t.to[st.top_five_head],
                !.top_five_tail = t.to[st.top_five_tail]]

\* OptimizedWordFrequencyAnalyzer()
Fresh ==
  [word_counts |-> EmptyHeap,
   top_five_head |-> None, top_five_tail |-> None, top_nodes |-> EmptyHeap,
   freq_head |-> None, freq_tail |-> None, freq_nodes |-> EmptyHeap,
   total_words |-> 0, raised |-> FALSE]

---------------------------------------------------------------------------
(* The analyzer *)

\* self: the analyzer object; ingested: how many times each token has been
\* given since the last clear; last: the last call that changed the object;
\* before: whether word_counts held a word when that call began; given: the
\* inputs of the calls since the last clear, kept in the runs of ScriptSpec
VARIABLES self, ingested, last, before, given

vars == <<self, ingested, last, before, given>>

\* the number of times each token has been given, after one more batch
Occurrences(words, bag) ==
  LET seen == DOMAIN bag \cup {words[i] : i \in 1..Len(words)}
  IN [w \in seen |-> CounterGet(bag, w)
                     + Cardinality({i \in 1..Len(words) : words[i] = w})]

\* "Empty" while word_counts holds no word, "Populated" otherwise
Lifecycle(st) == IF DOMAIN st.word_counts = {} THEN "Empty" ELSE "Populated"

Init ==
  /\ self = Fresh
  /\ ingested = EmptyHeap
  /\ last = "__init__"
  /\ before = "Empty"
  /\ given = <<>>

AddWords ==
  \E words_string \in RawInputs :
    LET words == Tokens(words_string)
    IN /\ self.total_words + Len(words) <= MaxTotal
       /\ \E order \in Orders(ChangedWords(self, words_string)) :
            self' = Canonical(add_words(self, words_string, order))
       /\ ingested' = Occurrences(words, ingested)
       /\ last' = IF words = <<>> THEN last ELSE "add_words"
       /\ before' = IF words = <<>> THEN before ELSE Lifecycle(self)
       /\ UNCHANGED given

Clear ==
  /\ self' = clear(self)
  /\ ingested' = EmptyHeap
  /\ last' = "clear"
  /\ before' = Lifecycle(self)
  /\ given' = <<>>

GetTopFive ==
  /\ self' = get_top_five_most_frequent(self).self
  /\ UNCHANGED <<ingested, last, before, given>>

GetLowest ==
  /\ self' = get_lowest_frequency(self).self
  /\ UNCHANGED <<ingested, last, before, given>>

GetMedian ==
  /\ self' = get_median_frequency(self).self
  /\ UNCHANGED <<ingested, last, before, given>>

GetAll ==
  /\ self' = get_all_frequencies(self).self
  /\ UNCHANGED <<ingested, last, before, given>>

GetCounts ==
  /\ self' = get_frequency_counts(self).self
  /\ UNCHANGED <<ingested, last, before, given>>

Next ==
  \/ AddWords
  \/ Clear
  \/ GetTopFive
  \/ GetLowest
  \/ GetMedian
  \/ GetAll
  \/ GetCounts

Spec == Init /\ [][Next]_vars

---------------------------------------------------------------------------
(* The scripts: the batches of test_demo.py, memory_comparison and
   test_incremental_benefits and lines typed at the prompt, given in any
   order, every call recorded in given *)

\* analyzer.add_words(user_input)
GiveWords ==
  \E words_string \in ScriptInputs :
    LET words == Tokens(words_string)
    IN /\ Len(given) < MaxCalls
       /\ self.total_words + Len(words) <= ScriptMaxTotal
       /\ \E order \in Orders(ChangedWords(self, words_string)) :
            self' = Canonical(add_words(self, words_string, order))
       /\ ingested' = Occurrences(words, ingested)
       /\ last' = IF words = <<>> THEN last ELSE "add_words"
       /\ before' = IF words = <<>> THEN before ELSE Lifecycle(self)
       /\ given' = Append(given, words_string)

ScriptNext ==
  \/ GiveWords
  \/ Clear

ScriptSpec == Init /\ [][ScriptNext]_vars

---------------------------------------------------------------------------
(* What the properties are stated with; none of it is used by the model *)

\* a sorts before b as a word: at the first place they differ a is smaller,
\* or a ends there and b does not
WordBefore(a, b) ==
  \E k \in 1..(Len(b)) :
    /\ k <= Len(a) + 1
    /\ \A j \in 1..(k - 1) : a[j] = b[j]
    /\ k = Len(a) + 1 \/ a[k] < b[k]

\* rank order of two (word, frequency) pairs: frequency descending, word ascending
RankBefore(x, y) == x[2] > y[2] \/ (x[2] = y[2] /\ WordBefore(x[1], y[1]))

Vocabulary(wc) == {<<w, wc[w]>> : w \in DOMAIN wc}

\* the first min(TopN, number of words) pairs of the vocabulary in rank order
ExpectedTop(wc) ==
  LET items == Vocabulary(wc)
      n == IF Cardinality(items) < TopN THEN Cardinality(items) ELSE TopN
  IN [i \in 1..n |->
        CHOOSE x \in items : Cardinality({y \in items : RankBefore(y, x)}) = i - 1]

WordsAt(wc, f) == {w \in DOMAIN wc : wc[w] = f}

RECURSIVE SumCounts(_)
SumCounts(h) == IF h = <<>> THEN 0 ELSE h[1][2] + SumCounts(Tail(h))

\* the k-th smallest of the frequencies of the words, one per word
KthFrequency(wc, k) ==
  SetMin({v \in {wc[w] : w \in DOMAIN wc} :
            Cardinality({w \in DOMAIN wc : wc[w] <= v}) >= k})

TopFive == get_top_five_most_frequent(self).ret

Histogram == get_frequency_counts(self).ret

\* the inputs made of commas and spaces only
NoTokenInputs == {s \in RawInputs : \A i \in 1..Len(s) : s[i] = Comma \/ s[i] = 32}

---------------------------------------------------------------------------
(* The properties *)

\* C1: after any sequence of add_words and clear calls the top-5 list is the
\* first min(5, number of distinct words) pairs of the whole vocabulary sorted
\* by (frequency descending, word ascending): the incremental update gives what
\* a full rebuild from word_counts gives.
C1_TopFiveIsFullSort == TopFive = ExpectedTop(self.word_counts)

\* more than five words, and the list led by a word counted twice: the list was
\* filled by incremental updates and one word had to stay out
C1_Witness ==
  /\ last = "add_words"
  /\ Cardinality(DOMAIN self.word_counts) > TopN
  /\ Len(TopFive) = TopN
  /\ TopFive[1][2] >= 2

\* C2: for every frequency f held by a word there is exactly one histogram
\* node of frequency f, its count is the number of words counted f times, no
\* node has another frequency, and the counts add up to the number of distinct
\* words (one word given n times has the histogram [(n, 1)]).
C2_HistogramConsistent ==
  LET wc == self.word_counts
      h == Histogram
  IN /\ \A w \in DOMAIN wc :
          /\ Cardinality({i \in 1..Len(h) : h[i][1] = wc[w]}) = 1
          /\ \A i \in 1..Len(h) :
               h[i][1] = wc[w] => h[i][2] = Cardinality(WordsAt(wc, wc[w]))
     /\ \A i \in 1..Len(h) : WordsAt(wc, h[i][1]) # {}
     /\ SumCounts(h) = Cardinality(DOMAIN wc)
     /\ \A w \in DOMAIN wc :
          DOMAIN wc = {w} => h = <<<<wc[w], 1>>>>

\* one word given three times: the nodes of frequency 1 and 2 are gone
C2_Witness ==
  /\ last = "add_words"
  /\ \E w \in DOMAIN self.word_counts :
       DOMAIN self.word_counts = {w} /\ self.word_counts[w] = 3
  /\ Histogram = <<<<3, 1>>>>

\* C3: get_all_frequencies()[w] is the number of times the normalized token w
\* was given in the batches since construction or the last clear, and a word
\* never given is not a key.
C3_CountFidelity == get_all_frequencies(self).ret = ingested

\* "b" given twice (as "B") beside another word
C3_Witness ==
  /\ last = "add_words"
  /\ Cardinality(DOMAIN ingested) >= 2
  /\ <<98>> \in DOMAIN ingested
  /\ ingested[<<98>>] = 2
  /\ get_all_frequencies(self).ret[<<98>>] = 2

\* C4: read from head to tail the histogram is strictly descending by
\* frequency (so no two nodes share a frequency) and every node's count is > 0.
C4_HistogramDescending ==
  /\ \A i \in 1..(Len(Histogram) - 1) : Histogram[i][1] > Histogram[i + 1][1]
  /\ \A i \in 1..Len(Histogram) : Histogram[i][2] > 0
  /\ \A n \in DOMAIN self.freq_nodes : self.freq_nodes[n].count > 0

\* three nodes, the last one holding two words
C4_Witness ==
  /\ last = "add_words"
  /\ Len(Histogram) = 3
  /\ Histogram[3][2] >= 2

\* C5: get_lowest_frequency() is the smallest count of a word of word_counts,
\* and 0 when there is no word; the tail node is the node of the smallest
\* frequency.
C5_LowestIsMinimum ==
  LET wc == self.word_counts
  IN /\ get_lowest_frequency(self).ret =
          IF DOMAIN wc = {} THEN 0 ELSE SetMin({wc[w] : w \in DOMAIN wc})
     /\ self.freq_tail # None =>
          \A n \in DOMAIN self.freq_nodes :
            self.freq_nodes[self.freq_tail].frequency <= self.freq_nodes[n].frequency

\* the node of frequency 1 was the tail and has been removed
C5_Witness ==
  /\ last = "add_words"
  /\ Len(Histogram) >= 2
  /\ get_lowest_frequency(self).ret >= 2

C7_ClearIsFresh ==
  /\ clear(self) = Fresh
  /\ clear(clear(self)) = clear(self)
  /\ get_top_five_most_frequent(clear(self)).ret = <<>>
  /\ get_lowest_frequency(clear(self)).ret = 0
  /\ get_median_frequency(clear(self)).ret = 0
  /\ last = "clear" => self = Fresh

\* a state with four words in the top-5 list and three histogram nodes, which
\* clear() has to empty
C7_Witness ==
  /\ last = "add_words"
  /\ Len(TopFive) = 4
  /\ Len(Histogram) = 3
  /\ self.total_words > TopN

\* C8: the top-5 list has at most 5 entries, no word twice, consecutive
\* entries in strictly increasing rank order (frequency descending, word
\* ascending), and every entry (w, f) has f = word_counts[w].
C8_TopFiveWellFormed ==
  /\ Len(TopFive) <= TopN
  /\ \A i, j \in 1..Len(TopFive) : TopFive[i][1] = TopFive[j][1] => i = j
  /\ \A i \in 1..(Len(TopFive) - 1) : RankBefore(TopFive[i], TopFive[i + 1])
  /\ \A i \in 1..Len(TopFive) :
       /\ TopFive[i][1] \in DOMAIN self.word_counts
       /\ TopFive[i][2] = self.word_counts[TopFive[i][1]]

\* a full list whose first two words were counted again after they entered
C8_Witness ==
  /\ last = "add_words"
  /\ Len(TopFive) = TopN
  /\ TopFive[2][2] >= 2

\* C9: add_words on an input that yields no token (empty, whitespace only,
\* commas and whitespace only) leaves word_counts, both lists and total_words
\* as they are and raises nothing.
C9_NoTokenIsNoOp ==
  /\ ~self.raised
  /\ \A s \in NoTokenInputs :
       \A order \in Orders(ChangedWords(self, s)) : add_words(self, s, order) = self

\* a populated state, with the inputs "", " " and " , " among those tried
C9_Witness ==
  /\ last = "add_words"
  /\ {<<>>, <<32>>, <<32, 44, 32>>} \subseteq NoTokenInputs
  /\ Len(TopFive) >= 3
  /\ Len(Histogram) >= 2

\* C10: the five queries leave the whole analyzer state as it is (no key added
\* to word_counts, neither list reordered) and return without error, in the
\* empty and in the populated state.
C10_QueriesPure ==
  /\ ~self.raised
  /\ get_top_five_most_frequent(self).self = self
  /\ get_lowest_frequency(self).self = self
  /\ get_median_frequency(self).self = self
  /\ get_all_frequencies(self).self = self
  /\ get_frequency_counts(self).self = self

\* a populated state where every query has something to return
C10_Witness ==
  /\ last = "add_words"
  /\ Len(get_top_five_most_frequent(self).ret) = TopN
  /\ get_lowest_frequency(self).ret = 1
  /\ get_median_frequency(self).ret = 2
  /\ Cardinality(DOMAIN get_all_frequencies(self).ret) > TopN
  /\ Len(get_frequency_counts(self).ret) = 2


\* the step is a call of add_words that was given at least one valid token
TokensAdded == ingested' # ingested /\ last' = "add_words"

\* the sizes of the three structures and the count of every word, over a step
EntriesKept == Cardinality(DOMAIN self'.word_counts) >= Cardinality(DOMAIN self.word_counts)
TopKept == Len(TopFive') >= Len(TopFive)
NodesKept == Len(Histogram') >= Len(Histogram)
CountsKept ==
  \A w \in DOMAIN self.word_counts :
    CounterGet(self'.word_counts, w) >= self.word_counts[w]

\* C11: the analyzer is a two-state machine, Empty while word_counts holds
\* no word and Populated otherwise: a call of add_words with a valid token
\* ends Populated, clear ends Empty, a call of add_words without a valid
\* token and a query keep the state, and no other step changes it.
C11_TwoStateMachine ==
  [][ /\ TokensAdded => Lifecycle(self') = "Populated"
      /\ last' = "clear" => Lifecycle(self') = "Empty"
      /\ (~TokensAdded /\ last' # "clear") => Lifecycle(self') = Lifecycle(self)
      /\ (Lifecycle(self) = "Empty" /\ Lifecycle(self') = "Populated") => TokensAdded
      /\ (Lifecycle(self) = "Populated" /\ Lifecycle(self') = "Empty") => last' = "clear"
    ]_vars

\* clear has taken a Populated analyzer to Empty
C11_Witness ==
  last = "clear" /\ before = "Populated" /\ Lifecycle(self) = "Empty"

\* C12 as stated: no step but a clear lowers the number of entries of
\* word_counts, of nodes of the frequency count list or of entries of the top
\* list, or the count of a word.
C12_OnlyClearShrinks ==
  [][last' # "clear" => (EntriesKept /\ NodesKept /\ TopKept /\ CountsKept)]_vars

\* C12, amended: no step but a clear lowers the number of entries of
\* word_counts or of the top list, the count of a word, or the sum of the
\* counts of the nodes of the frequency count list (the number of its nodes
\* can fall: _update_frequency_counts removes a node whose count reaches 0).
C12_OnlyClearForgets ==
  [][last' # "clear" => /\ EntriesKept /\ TopKept /\ CountsKept
                        /\ SumCounts(Histogram') >= SumCounts(Histogram)]_vars

\* add_words has moved every word of a Populated analyzer to frequency 2:
\* the node of frequency 1 is gone
C12_Witness ==
  last = "add_words" /\ before = "Populated" /\ Histogram = <<<<2, 3>>>>

\* C13: the top list is a function of word_counts alone: after any history
\* of batches and any iteration order of changed_words it is the list that
\* _build_initial_top5 builds from word_counts on an analyzer that has
\* seen nothing else.
C13_TopFiveFromCountsAlone ==
  TopFive = get_top_five_most_frequent(
              _build_initial_top5([Fresh EXCEPT !.word_counts = self.word_counts])).ret

\* more than five words, and one outside the list ties with its last entry
C13_Witness ==
  /\ last = "add_words"
  /\ before = "Populated"
  /\ \E w \in DOMAIN self.word_counts :
       /\ \A i \in 1..Len(TopFive) : TopFive[i][1] # w
       /\ self.word_counts[w] = TopFive[TopN][2]

\* C18: word_counts, the frequency count list and the top list are all
\* empty or all non-empty.
C18_AllEmptyOrNone ==
  /\ (DOMAIN self.word_counts = {}) <=> (self.freq_head = None)
  /\ (DOMAIN self.word_counts = {}) <=> (self.top_five_head = None)
  /\ (self.freq_head = None) <=> (Histogram = <<>>)
  /\ (self.top_five_head = None) <=> (TopFive = <<>>)

\* the first batch has filled the three structures of an Empty analyzer
C18_Witness ==
  /\ last = "add_words"
  /\ before = "Empty"
  /\ self.freq_head # None
  /\ self.top_five_head # None
  /\ DOMAIN self.word_counts # {}

\* the words of the first two batches of test_demo.py, as code points
Apple == << 97, 112, 112, 108, 101 >>
Banana == << 98, 97, 110, 97, 110, 97 >>
Cherry == << 99, 104, 101, 114, 114, 121 >>
Elderberry == << 101, 108, 100, 101, 114, 98, 101, 114, 114, 121 >>
Fig == << 102, 105, 103 >>

\* the top list after the first two batches of test_demo.py
TopAfterTwoBatches ==
  << <<Apple, 2>>, <<Banana, 2>>, <<Cherry, 2>>, <<Elderberry, 1>>, <<Fig, 1>> >>

\* C14: on a fresh analyzer add_words("apple, banana, apple, cherry") gives
\* the counts apple 2, banana 1, cherry 1, the top list apple, banana,
\* cherry, the lowest frequency 1 and the median 1.0; a following
\* add_words("banana, cherry, elderberry, fig") gives apple, banana and
\* cherry 2, elderberry and fig 1, the top list in that order and the median
\* 2.0 (get_median_frequency is modelled times 2).
C14_FirstTwoBatches ==
  /\ given = <<DemoBatch1>> =>
       /\ get_all_frequencies(self).ret = (Apple :> 2 @@ Banana :> 1 @@ Cherry :> 1)
       /\ TopFive = << <<Apple, 2>>, <<Banana, 1>>, <<Cherry, 1>> >>
       /\ get_lowest_frequency(self).ret = 1
       /\ get_median_frequency(self).ret = 2
  /\ given = <<DemoBatch1, DemoBatch2>> =>
       /\ get_all_frequencies(self).ret =
            (Apple :> 2 @@ Banana :> 2 @@ Cherry :> 2 @@ Elderberry :> 1 @@ Fig :> 1)
       /\ TopFive = TopAfterTwoBatches
       /\ get_median_frequency(self).ret = 4

\* both batches have been given to a fresh analyzer
C14_Witness ==
  given = <<DemoBatch1, DemoBatch2>> /\ last = "add_words" /\ self.total_words = 8

\* C15: after the first two batches of test_demo.py,
\* add_words("zebra, yankee, xray, whale, violin"), five new words that sort
\* after every word of the top list, leaves the top list as it was.
C15_NewcomersLeaveFullList ==
  [][(given = <<DemoBatch1, DemoBatch2>>
      /\ given' = <<DemoBatch1, DemoBatch2, Newcomers>>) => TopFive' = TopFive]_vars

\* the five newcomers are counted and the top list is the one of before
C15_Witness ==
  /\ given = <<DemoBatch1, DemoBatch2, Newcomers>>
  /\ Cardinality(DOMAIN self.word_counts) = 2 * TopN
  /\ TopFive = TopAfterTwoBatches

\* C16: after add_words("apple, banana, apple, cherry, date") on a fresh
\* analyzer, add_words("zebra, yankee, xray, whale, violin"), new words given
\* once each that sort after every word ingested, leaves the top list as it
\* was.
C16_NewcomersLeaveTopFive ==
  [][(given = <<InitialWords>> /\ given' = <<InitialWords, Newcomers>>)
     => TopFive' = TopFive]_vars

\* What a call is expected to count, read off the input string itself: the
\* pieces between the commas, each without its surrounding whitespace and
\* with its capital letters folded.
Cuts(s) == {0} \cup {i \in 1..Len(s) : s[i] = Comma} \cup {Len(s) + 1}
PieceStarts(s) == Cuts(s) \ {Len(s) + 1}
PieceAfter(s, a) == SubSeq(s, a + 1, SetMin({c \in Cuts(s) : c > a}) - 1)
Inked(p) == {i \in 1..Len(p) : p[i] # 32 /\ p[i] \notin 9..13}
Trimmed(p) == IF Inked(p) = {} THEN <<>> ELSE SubSeq(p, SetMin(Inked(p)), SetMax(Inked(p)))
Folded(p) == [i \in 1..Len(p) |-> IF p[i] \in 65..90 THEN p[i] + 32 ELSE p[i]]
WordsOf(s) == {Folded(Trimmed(PieceAfter(s, a))) : a \in PieceStarts(s)} \ {<<>>}
Increments(s, w) ==
  Cardinality({a \in PieceStarts(s) : Folded(Trimmed(PieceAfter(s, a))) = w})
NonEmptyPieces(s) ==
  Cardinality({a \in PieceStarts(s) : Trimmed(PieceAfter(s, a)) # <<>>})

\* for each input of the scripts, the increments expected for each word and
\* in all, computed once
Expected ==
  [s \in ScriptInputs |->
     [each |-> [w \in WordsOf(s) |-> Increments(s, w)], all |-> NonEmptyPieces(s)]]

\* the step is a recorded call of add_words; Input is the string it was given
Called == Len(given') = Len(given) + 1
Input == given'[Len(given')]

\* C17: add_words splits its input on commas, trims whitespace, lower-cases
\* and discards empty pieces: a call counts every piece under its trimmed,
\* lower-cased form, so pieces differing only in case or surrounding
\* whitespace increment the same word, and the number of increments of a call
\* is the number of its non-empty trimmed pieces.
C17_PiecesCounted ==
  [][Called =>
       LET expected == Expected[Input]
       IN /\ self'.total_words = self.total_words + expected.all
          /\ \A w \in DOMAIN self'.word_counts \cup DOMAIN expected.each :
               CounterGet(self'.word_counts, w)
                 = CounterGet(self.word_counts, w)
                   + (IF w \in DOMAIN expected.each THEN expected.each[w] ELSE 0)]_vars

\* "kiwi,, ,KIWI" then "Fig, FIG ,fig": two words from seven pieces
C17_Witness ==
  /\ given = <<TypedGaps, TypedMixed>>
  /\ DOMAIN self.word_counts = {Fig, <<107, 105, 119, 105>>}
  /\ self.total_words = 5

\* the calls of add_words that the scripts can make in this state
NextInputs ==
  {s \in ScriptInputs : /\ Len(given) < MaxCalls
                        /\ self.total_words + Len(Tokens(s)) <= ScriptMaxTotal}

\* the object and the dict changes that add_words(words_string) hands to
\* _update_frequency_counts in this state
Handed(words_string) ==
  LET acc == Counted(self, Tokens(words_string))
  IN [st |-> [self EXCEPT !.word_counts = acc.word_counts,
                          !.total_words = acc.total_words],
      changes |-> acc.changes]

\* some round of the loop of _update_frequency_counts, from round i on, meets
\* a negative change for a frequency without a node, or takes a node's count
\* below 0
RECURSIVE Underflows(_, _, _)
Underflows(st, changes, i) ==
  IF i > Len(changes.keys) THEN FALSE
  ELSE LET frequency == changes.keys[i]
           change == changes.val[frequency]
           node == _find_frequency_node(st, frequency)
       IN \/ node = None /\ change < 0
          \/ node # None /\ st.freq_nodes[node].count + change < 0
          \/ Underflows(ApplyChange(st, frequency, change), changes, i + 1)

\* C19: _update_frequency_counts is never given a negative net change for a
\* frequency that has no node, and no node's count becomes negative, in any
\* call of add_words the scripts can make; the nodes of the list hold counts
\* of at least 0.
C19_NoUnderflow ==
  /\ \A s \in NextInputs : LET h == Handed(s) IN ~Underflows(h.st, h.changes, 1)
  /\ \A n \in DOMAIN self.freq_nodes : self.freq_nodes[n].count >= 0

\* "apple, banana, apple, cherry, date" then "apple, apple, banana, cherry,
\* cherry": the node of frequency 1 has gone from 3 words to 1
C19_Witness ==
  /\ given = <<InitialWords, Risers>>
  /\ Histogram = << <<4, 1>>, <<3, 1>>, <<2, 1>>, <<1, 1>> >>

\* the sequences that hold every element of S once
RECURSIVE Arrangements(_)
Arrangements(S) ==
  IF S = {} THEN {<<>>}
  ELSE UNION { {<<x>> \o rest : rest \in Arrangements(S \ {x})} : x \in S }

\* the frequency count list after _update_frequency_counts(changes)
HistogramAfter(st, changes) ==
  get_frequency_counts(_update_frequency_counts(st, changes)).ret

\* C20: in any call of add_words the scripts can make, the entries of the
\* dict changes, applied to the frequency count list in any order of its
\* keys, give the list that the order of the dict gives: the same
\* frequencies with the same counts in the same order.
C20_KeyOrderFree ==
  \A s \in NextInputs :
    LET h == Handed(s)
        result == HistogramAfter(h.st, h.changes)
    IN \A keys \in Arrangements({h.changes.keys[i] : i \in 1..Len(h.changes.keys)}) :
         HistogramAfter(h.st, [keys |-> keys, val |-> h.changes.val]) = result

\* "apple, banana, apple, cherry" then "apple, apple, banana, cherry,
\* cherry": the node of frequency 1 removed, those of 3 and 4 inserted
C20_Witness ==
  /\ given = <<DemoBatch1, Risers>>
  /\ Histogram = << <<4, 1>>, <<3, 1>>, <<2, 1>> >>

\* C21: between construction (or a clear) and the next clear, the call of
\* add_words that takes _build_initial_top5 is the first one with a valid
\* token, and every later call with a valid token takes the incremental
\* path: whatever call the scripts make next, it takes the full rebuild
\* exactly when no token has been given since construction or the last clear.
C21_FullRebuildOnlyFirst ==
  \A s \in NextInputs :
    TopFivePath(self, s) =
      IF Tokens(s) = <<>> THEN "none"
      ELSE IF ingested = EmptyHeap THEN "_build_initial_top5"
      ELSE "incremental"

\* two batches have been given and a third call would be incremental
C21_Witness ==
  /\ given = <<DemoBatch1, DemoBatch2>>
  /\ \E s \in NextInputs : TopFivePath(self, s) = "incremental"

\* C22: when _update_frequency_counts meets a frequency that has no node
\* together with a change <= 0, the frequency count list and the rest of the
\* object are left as they were and nothing is raised.
C22_AbsentNonPositiveIgnored ==
  \A frequency \in 0..(MaxTotal + 1) : \A change \in (0 - MaxDelta)..0 :
    _find_frequency_node(self, frequency) = None =>
      LET after == _update_frequency_counts(self, DictSet(EmptyDict, frequency, change))
      IN /\ get_frequency_counts(after).ret = Histogram
         /\ ~after.raised
         /\ after = self

\* a list of two nodes with no node for the frequency between them
C22_Witness ==
  /\ last = "add_words"
  /\ Histogram = << <<3, 1>>, <<1, 1>> >>
  /\ _find_frequency_node(self, 2) = None

\* the ids met from current through prev, each once
RECURSIVE WalkBack(_, _, _)
WalkBack(heap, current, seen) ==
  IF current = None \/ current \in seen \/ current \notin DOMAIN heap THEN <<>>
  ELSE <<current>> \o WalkBack(heap, heap[current].prev, seen \cup {current})

Reversed(l) == [i \in 1..Len(l) |-> l[Len(l) + 1 - i]]

\* a doubly-linked list: its ends, its links in both directions, no cycle
WellFormed(heap, head, tail) ==
  LET forward == WalkIds(heap, head, {})
  IN /\ (head = None) <=> (tail = None)
     /\ head # None =>
          /\ head \in DOMAIN heap /\ tail \in DOMAIN heap
          /\ heap[head].prev = None
          /\ heap[tail].next = None
          /\ forward[Len(forward)] = tail
     /\ \A n \in DOMAIN heap :
          heap[n].next # None =>
            /\ heap[n].next \in DOMAIN heap
            /\ heap[heap[n].next].prev = n
     /\ {forward[i] : i \in 1..Len(forward)} = DOMAIN heap
     /\ WalkBack(heap, tail, {}) = Reversed(forward)

\* C23: both doubly-linked lists are well formed in every reachable state:
\* head.prev and tail.next are None, head is None exactly when tail is,
\* n.next.prev is n for every node with a successor, the walk along next from
\* the head ends at the tail without meeting a node twice, and the walk along
\* prev from the tail meets the same nodes in reverse.
C23_ListsWellFormed ==
  /\ WellFormed(self.freq_nodes, self.freq_head, self.freq_tail)
  /\ WellFormed(self.top_nodes, self.top_five_head, self.top_five_tail)

\* three nodes in the frequency count list and four in the top list
C23_Witness ==
  /\ last = "add_words"
  /\ Len(WalkIds(self.freq_nodes, self.freq_head, {})) = 3
  /\ Len(WalkIds(self.top_nodes, self.top_five_head, {})) = 4

\* the sum of the counts of word_counts
RECURSIVE CountSum(_)
CountSum(wc) ==
  IF DOMAIN wc = {} THEN 0
  ELSE LET w == CHOOSE x \in DOMAIN wc : TRUE
       IN wc[w] + CountSum([v \in DOMAIN wc \ {w} |-> wc[v]])

\* C24: total_words is the sum of the counts of word_counts, which is the
\* number of valid tokens given since construction or the last clear, and it
\* is 0 exactly when word_counts is empty.
C24_TotalIsSumOfCounts ==
  /\ self.total_words = CountSum(self.word_counts)
  /\ self.total_words = CountSum(ingested)
  /\ (self.total_words = 0) <=> (DOMAIN self.word_counts = {})

\* at least five tokens have been counted and some word more than once
C24_Witness ==
  /\ last = "add_words"
  /\ self.total_words >= TopN
  /\ Cardinality(DOMAIN self.word_counts) < self.total_words
====
